---- MODULE Spec2Model ----
(***************************************************************************)
(* A model of the tsreflect generator (src/tsreflect.go): the registry     *)
(* tables of a Generator, the recursive walker `add`, the renderer         *)
(* `typeOf` and the declaration listing.  reflect.Type values are modelled *)
(* as identifiers into a fixed table of type descriptors (the reflection   *)
(* oracle); every string the code builds is built here as a string.        *)
(***************************************************************************)
EXTENDS Integers, Sequences, FiniteSets, TLC

(***************************************************************************)
(* Bounds of the exploration.                                              *)
(***************************************************************************)
\* the number of Add and AddFunc calls in a run
MaxOps == 2
\* the same, for the runs that register types of one short name
MaxNameOps == 3

(***************************************************************************)
(* The reflection oracle: type descriptors.                                *)
(***************************************************************************)
Nil == "<nil>"

NoTag == [json |-> <<>>, yaml |-> <<>>]
JsonTag(s) == [json |-> <<s>>, yaml |-> <<>>]
YamlTag(s) == [json |-> <<>>, yaml |-> <<s>>]

\* reflect.StructField: Name, Type, IsExported(), Anonymous, Tag
Fld(name, type, tag) ==
    [name |-> name, type |-> type, exported |-> TRUE, anonymous |-> FALSE, tag |-> tag]
Unexported(name, type) ==
    [name |-> name, type |-> type, exported |-> FALSE, anonymous |-> FALSE, tag |-> NoTag]
Embedded(name, type, exported) ==
    [name |-> name, type |-> type, exported |-> exported, anonymous |-> TRUE, tag |-> NoTag]

Desc(kind, name, elem, key, len, fields) ==
    [kind |-> kind, name |-> name, elem |-> elem, key |-> key, len |-> len,
     fields |-> fields, ins |-> <<>>, outs |-> <<>>]
Leaf(kind, name) == Desc(kind, name, Nil, Nil, 0, <<>>)
PtrTo(elem) == Desc("Pointer", "", elem, Nil, 0, <<>>)
SliceOf(elem) == Desc("Slice", "", elem, Nil, 0, <<>>)
ArrayOf(elem, len) == Desc("Array", "", elem, Nil, len, <<>>)
MapOf(key, elem) == Desc("Map", "", elem, key, 0, <<>>)
StructOf(name, fields) == Desc("Struct", name, Nil, Nil, 0, fields)
FuncOf(ins, outs) ==
    [kind |-> "Func", name |-> "", elem |-> Nil, key |-> Nil, len |-> 0,
     fields |-> <<>>, ins |-> ins, outs |-> outs]
typeOfError == "error"

TypeTable ==
    \* leaves and containers of leaves
       ("int"    :> Leaf("Int", "int"))
    @@ ("int64"  :> Leaf("Int64", "int64"))
    @@ ("string" :> Leaf("String", "string"))
    @@ ("bool"   :> Leaf("Bool", "bool"))
    @@ ("*int"   :> PtrTo("int"))
    @@ ("[]int"  :> SliceOf("int"))
    @@ ("[2]int" :> ArrayOf("int", 2))
    @@ ("map[int]int" :> MapOf("int", "int"))
    \* type c struct { A int; R *c }             (cyclical struct)
    @@ ("c"   :> StructOf("c", << Fld("A", "int", NoTag), Fld("R", "*c", NoTag) >>))
    @@ ("*c"  :> PtrTo("c"))
    \* type cs struct { A int; R []cs }          (cyclical slice struct)
    @@ ("cs"   :> StructOf("cs", << Fld("A", "int", NoTag), Fld("R", "[]cs", NoTag) >>))
    @@ ("[]cs" :> SliceOf("cs"))
    \* type MA struct { B *MB }; type MB struct { A *MA }   (mutual)
    @@ ("MA"  :> StructOf("MA", << Fld("B", "*MB", NoTag) >>))
    @@ ("MB"  :> StructOf("MB", << Fld("A", "*MA", NoTag) >>))
    @@ ("*MA" :> PtrTo("MA"))
    @@ ("*MB" :> PtrTo("MB"))
    \* three distinct struct types, all with the short name S
    @@ ("S#1" :> StructOf("S", << Fld("A", "int", NoTag), Fld("B", "*int", NoTag) >>))
    @@ ("S#2" :> StructOf("S", << Fld("C", "int", NoTag), Fld("D", "*int", NoTag) >>))
    @@ ("S#3" :> StructOf("S", << Fld("E", "int", NoTag) >>))
    \* a fourth one that points to the first: type S struct { N *S }
    @@ ("S#4" :> StructOf("S", << Fld("N", "*S#1", NoTag) >>))
    @@ ("*S#1" :> PtrTo("S#1"))
    \* a struct named like the second candidate of the sequential namer
    @@ ("S2"  :> StructOf("S2", << Fld("F", "bool", NoTag) >>))
    \* type Holder struct { M MA }: not on a cycle, but holding a type that is
    @@ ("Holder" :> StructOf("Holder", << Fld("M", "MA", NoTag) >>))
    \* the shapes of "string struct tags" and "omitempty struct tags"
    @@ ("Tags" :> StructOf("Tags",
            << Fld("A", "int", JsonTag("a")),
               Fld("B", "int64", JsonTag("b,string")),
               Fld("C", "int", JsonTag("c,omitempty,string")),
               Fld("D", "bool", YamlTag("d")),
               Fld("E", "bool", YamlTag("-")),
               Fld("F", "string", JsonTag("-,")) >>))
    @@ ("Opt" :> StructOf("Opt",
            << Fld("A", "*int", JsonTag("a")),
               Fld("B", "*int", JsonTag("b,omitempty")),
               Fld("C", "[]int", NoTag),
               Fld("D", "[]int", JsonTag(",omitempty")),
               Fld("E", "map[int]int", JsonTag("e")),
               Fld("F", "map[int]int", JsonTag("f,omitempty")),
               Fld("G", "*Inner", JsonTag("g,omitempty")),
               Fld("H", "*int", JsonTag("h,omitzero,omitempty")),
               Fld("I", "[]byte", JsonTag(",omitempty")) >>))
    @@ ("*Inner" :> PtrTo("Inner"))
    \* type S1 struct { I int }; type S2 struct { S1 }   (embedded structs)
    @@ ("Base" :> StructOf("Base", << Fld("I", "int", NoTag), Fld("K", "bool", JsonTag("-")) >>))
    @@ ("Derived" :> StructOf("Derived",
            << Fld("Z", "string", NoTag), Embedded("Base", "Base", TRUE),
               Fld("J", "int", JsonTag("j,omitempty")) >>))
    \* type Inner struct { X int }; type Outer struct { A int; I Inner }
    @@ ("Inner" :> StructOf("Inner", << Fld("X", "int", NoTag) >>))
    @@ ("Outer" :> StructOf("Outer", << Fld("A", "int", NoTag), Fld("I", "Inner", NoTag) >>))
    \* type MyStruct of the examples, with one unexported field added
    @@ ("MyStruct" :> StructOf("MyStruct",
            << Fld("Number", "int", NoTag),
               Fld("String", "int", JsonTag(",string")),
               Unexported("private", "c"),
               Fld("Alias", "string", JsonTag("alias")),
               Fld("Hidden", "string", JsonTag("-")) >>))
    \* func(int) (string, error) and func()
    @@ ("error" :> Leaf("Interface", "error"))
    @@ ("func(int) (string, error)" :> FuncOf(<< "int" >>, << "string", "error" >>))
    @@ ("func()" :> FuncOf(<< >>, << >>))
    \* type Cb struct { S func() }: a struct with a field of function type
    @@ ("Cb" :> StructOf("Cb", << Fld("S", "func()", NoTag) >>))
    \* the types New installs typers for
    @@ ("uint8"     :> Leaf("Uint8", "uint8"))
    @@ ("[]byte"    :> SliceOf("uint8"))
    @@ ("time.Time" :> StructOf("Time", << Unexported("wall", "int64"), Unexported("ext", "int64") >>))
    @@ ("big.Int"   :> StructOf("Int", << Unexported("neg", "bool") >>))
    @@ ("*big.Int"  :> PtrTo("big.Int"))
    \* type MyCustomStruct: MarshalJSON and TypeScriptType on the value
    @@ ("MyCustomStruct" :> StructOf("MyCustomStruct",
            << Fld("A", "string", NoTag), Fld("B", "string", NoTag), Fld("C", "string", NoTag) >>))
    \* type Marshaled struct { A int }: MarshalJSON only
    @@ ("Marshaled" :> StructOf("Marshaled", << Fld("A", "int", NoTag) >>))
    @@ ("*Marshaled" :> PtrTo("Marshaled"))
    \* type Rec struct{ A string }, given the typer "Record<string, string>"
    @@ ("Rec" :> StructOf("Rec", << Fld("A", "string", NoTag) >>))
    @@ ("Wrap" :> StructOf("Wrap", << Fld("M", "MyCustomStruct", NoTag), Fld("R", "Rec", NoTag) >>))
    \* named structs without a field to emit: one with its fields left out,
    \* one that embeds it, and a struct holding both
    @@ ("Empty" :> StructOf("Empty", << Fld("A", "bool", JsonTag("-")), Unexported("b", "int") >>))
    @@ ("Shell" :> StructOf("Shell", << Embedded("Empty", "Empty", TRUE) >>))
    @@ ("HasEmpty" :> StructOf("HasEmpty",
            << Fld("E", "Empty", NoTag), Fld("F", "Shell", NoTag), Fld("T", "time.Time", NoTag) >>))
    \* the kinds TestUnsupported goes through, and further leaves
    @@ ("chan struct {}" :> Leaf("Chan", ""))
    @@ ("complex64"      :> Leaf("Complex64", "complex64"))
    @@ ("complex128"     :> Leaf("Complex128", "complex128"))
    @@ ("unsafe.Pointer" :> Leaf("UnsafePointer", "Pointer"))
    @@ ("float64"        :> Leaf("Float64", "float64"))
    @@ ("uintptr"        :> Leaf("Uintptr", "uintptr"))
    @@ ("interface {}"   :> Leaf("Interface", ""))
    \* type Ch chan int, with a MarshalJSON method
    @@ ("Ch" :> Leaf("Chan", "Ch"))
    \* type Str string; type E struct { A int; B int; Str }: a struct that
    \* embeds a type that is not a struct
    @@ ("Str" :> Leaf("String", "Str"))
    @@ ("E" :> StructOf("E",
            << Fld("A", "int", NoTag), Fld("B", "int", NoTag), Embedded("Str", "Str", TRUE) >>))
    \* type StringUnion string, with MarshalJSON and TypeScriptType, and the
    \* struct S of "non struct anonymous types should work", to which the
    \* embedding promotes both methods
    @@ ("StringUnion" :> Leaf("String", "StringUnion"))
    @@ ("SU" :> StructOf("S",
            << Fld("A", "int", NoTag), Fld("B", "int", NoTag),
               Embedded("StringUnion", "StringUnion", TRUE) >>))
    \* type N struct { Next *N; Data Payload }; type Payload struct { X int }:
    \* a field after the field that closes the cycle
    @@ ("N" :> StructOf("N", << Fld("Next", "*N", NoTag), Fld("Data", "Payload", NoTag) >>))
    @@ ("*N" :> PtrTo("N"))
    @@ ("Payload" :> StructOf("Payload", << Fld("X", "int", NoTag) >>))
    \* type K struct { M map[*K]KV }; type KV struct { Y int }: the key closes the cycle
    @@ ("K" :> StructOf("K", << Fld("M", "map[*K]KV", NoTag) >>))
    @@ ("map[*K]KV" :> MapOf("*K", "KV"))
    @@ ("*K" :> PtrTo("K"))
    @@ ("KV" :> StructOf("KV", << Fld("Y", "int", NoTag) >>))
    \* type V struct { M map[string]*V }: the value closes the cycle
    @@ ("V" :> StructOf("V", << Fld("M", "map[string]*V", NoTag) >>))
    @@ ("map[string]*V" :> MapOf("string", "*V"))
    @@ ("*V" :> PtrTo("V"))
    \* type Own struct { X struct { R *Own } }: the way back leads through an
    \* unnamed struct
    @@ ("Own" :> StructOf("Own", << Fld("X", "struct { R *Own }", NoTag) >>))
    @@ ("struct { R *Own }" :> StructOf("", << Fld("R", "*Own", NoTag) >>))
    @@ ("*Own" :> PtrTo("Own"))

TypeIds == DOMAIN TypeTable

\* typ.Implements(typeOfTypeScriptTyper), typ.Implements(typeOfMarshaler)
TypeScriptTypers == {"MyCustomStruct", "StringUnion", "SU"}
Marshalers == {"MyCustomStruct", "Marshaled", "*Marshaled", "time.Time", "*big.Int", "Ch",
               "StringUnion", "SU"}
Implements(typ, u) == typ \in u

\* what the type's own TypeScriptType method returns
TypeScriptType(typ, optional) ==
    CASE typ = "MyCustomStruct" -> "string"
      [] typ \in {"StringUnion", "SU"} -> "\"test1\" | \"test2\""
      [] OTHER -> ""

Kind(typ) == TypeTable[typ].kind
Name(typ) == TypeTable[typ].name
Elem(typ) == TypeTable[typ].elem
Key(typ) == TypeTable[typ].key
ArrayLen(typ) == TypeTable[typ].len
NumField(typ) == Len(TypeTable[typ].fields)
Field(typ, i) == TypeTable[typ].fields[i]

\* reflect.StructTag.Lookup
TagLookup(f, key) ==
    LET v == IF key = "json" THEN f.tag.json ELSE f.tag.yaml
    IN  [ok |-> v # <<>>, value |-> IF v # <<>> THEN v[1] ELSE ""]

\* a variant of hasTagOmit that reads the json tag only
hasTagOmitJsonOnly(f) == TagLookup(f, "json").ok /\ TagLookup(f, "json").value = "-"

hasTagOmit(f) ==
    LET j == TagLookup(f, "json")
        y == TagLookup(f, "yaml")
    IN  IF j.ok /\ j.value = "-" THEN TRUE
        ELSE IF ~j.ok THEN y.ok /\ y.value = "-"
        ELSE FALSE

RECURSIVE countExportedFields(_), countFrom(_, _), countField(_)
countExportedFields(typ) ==
    IF Kind(typ) # "Struct" THEN 0 ELSE countFrom(typ, 1)

\* the loop of countExportedFields, from field i on
countFrom(typ, i) ==
    IF i > NumField(typ) THEN 0
    ELSE countField(Field(typ, i)) + countFrom(typ, i + 1)

\* a count that takes an embedded struct for one field
countFieldShallow(f) == IF ~f.exported \/ hasTagOmit(f) THEN 0 ELSE 1

\* what one field adds to the count
countField(f) ==
    IF ~f.exported \/ hasTagOmit(f) THEN 0
    ELSE IF f.anonymous THEN countExportedFields(f.type)
    ELSE 1

(***************************************************************************)
(* The Generator.                                                          *)
(***************************************************************************)
VARIABLES
    flatten,          \* g.flatten
    warnings,         \* g.warnings
    export,           \* g.export
    namer,            \* g.namer
    typers,           \* g.typers: type -> the Typer registered for it
    types,            \* g.types: the visited set
    circular,         \* g.circular
    symbols,          \* g.symbols: type -> name
    names,            \* g.names: name -> type
    async,            \* g.async: name -> bool
    implementations,  \* g.implementations: name -> code
    dispatched,       \* how often the kind switch of add was entered, per type
    refused,          \* the namings that ended in the panic of add
    calls,            \* history: the Add and AddFunc calls made so far
    last              \* the last call and what it returned

vars == << flatten, warnings, export, namer, typers, types, circular, symbols, names, async, implementations,
           dispatched, refused, calls, last >>

\* the generator as one value
G == [flatten |-> flatten, warnings |-> warnings, export |-> export, namer |-> namer,
      typers |-> typers,
      types |-> types, circular |-> circular,
      symbols |-> symbols, names |-> names, async |-> async,
      implementations |-> implementations, dispatched |-> dispatched,
      refused |-> refused]

\* the generator after the step
GNext == [flatten |-> flatten', warnings |-> warnings', export |-> export', namer |-> namer',
          typers |-> typers',
          types |-> types', circular |-> circular', symbols |-> symbols',
          names |-> names', async |-> async',
          implementations |-> implementations', dispatched |-> dispatched',
          refused |-> refused']

EmptyMap == << >>
Put(m, k, v) == [x \in (DOMAIN m) \cup {k} |-> IF x = k THEN v ELSE m[x]]

\* the typers New installs
BuiltinTypers ==
    ("[]byte" :> "byteSlice") @@ ("time.Time" :> "time") @@ ("*big.Int" :> "bigInt")

isNameTaken(g, name) == name \in DOMAIN g.names

RECURSIVE sequentialFrom(_, _, _)
\* for i := 2; ; i++: the first name%d that is not taken
sequentialFrom(g, name, i) ==
    IF ~isNameTaken(g, name \o ToString(i)) THEN name \o ToString(i)
    ELSE sequentialFrom(g, name, i + 1)

\* a variant of sequentialNamer whose suffixes start at 3
sequentialNamerFromThree(g, name) ==
    IF ~isNameTaken(g, name) THEN name ELSE sequentialFrom(g, name, 3)

sequentialNamer(g, name) ==
    IF ~isNameTaken(g, name) THEN name ELSE sequentialFrom(g, name, 2)

DefaultNamer(g, typ) == sequentialNamer(g, Name(typ))

\* g.namer(typ, g.isNameTaken): the default namer, or a namer given with
\* WithNamer that returns "Name" for every type
applyNamer(g, typ) ==
    CASE g.namer = "default" -> DefaultNamer(g, typ)
      [] g.namer = "constant" -> "Name"

(***************************************************************************)
(* The walker.  A call of add yields the generator it leaves behind, the   *)
(* boolean it returns and whether it panicked (a panic unwinds every       *)
(* enclosing call and keeps the tables as they were at that moment).       *)
(***************************************************************************)
Ret(g, b) == [g |-> g, ret |-> b, panicked |-> FALSE]
Panic(g) == [g |-> g, ret |-> FALSE, panicked |-> TRUE]

\* a variant of isVisited that remembers struct types only
isVisitedStructsOnly(g, typ) == typ \in g.types /\ Kind(typ) = "Struct"

\* if _, ok := g.types[typ]; ok && (typ.Kind() != reflect.Func)
isVisited(g, typ) == typ \in g.types /\ Kind(typ) # "Func"

\* a variant of markVisited that does not record struct types
markVisitedSkipStruct(g, typ) ==
    [g EXCEPT !.types = IF Kind(typ) = "Struct" THEN @ ELSE @ \cup {typ},
              !.dispatched[typ] = @ + 1]

\* g.types[typ] = struct{}{}, then the kind switch is entered
markVisited(g, typ) ==
    [g EXCEPT !.types = @ \cup {typ}, !.dispatched[typ] = @ + 1]

\* case reflect.Func
bindFunc(g, typ, name, asy, impl) ==
    [g EXCEPT !.names = Put(@, name, typ),
              !.async = Put(@, name, asy),
              !.implementations = Put(@, name, impl)]

\* g.symbols[typ] = name; g.names[name] = typ
bindStruct(g, typ, name) ==
    [g EXCEPT !.symbols = Put(@, typ, name), !.names = Put(@, name, typ)]

\* if isCircular { g.circular[typ] = struct{}{} }
markCircular(g, typ, isCircular) ==
    IF isCircular THEN [g EXCEPT !.circular = @ \cup {typ}] ELSE g

\* the parent handed to the fields of a struct
fieldParent(typ, parent) == IF Name(typ) # "" THEN typ ELSE parent

RECURSIVE add(_, _, _, _, _, _), addKind(_, _, _, _, _, _, _), addElem(_, _, _, _, _, _),
          addStruct(_, _, _), addFields(_, _, _, _, _), addField(_, _, _, _, _, _),
          addNext(_, _, _, _)

\* the field loop of the reflect.Struct case, from field i on
addFields(g, typ, parent, i, isCircular) ==
    IF i > NumField(typ) THEN Ret(g, isCircular)
    ELSE addField(g, typ, parent, i, isCircular, Field(typ, i))

\* one round of the loop, for field f.  isCircular = isCircular || g.add(...):
\* add runs only while isCircular is still false
addField(g, typ, parent, i, isCircular, f) ==
    IF ~f.exported \/ hasTagOmit(f) THEN addFields(g, typ, parent, i + 1, isCircular)
    ELSE IF isCircular THEN addFields(g, typ, parent, i + 1, TRUE)
    ELSE addNext(add(g, f.type, fieldParent(typ, parent), f.name, FALSE, ""), typ, parent, i)

\* the loop goes on after the add of field i returned r
addNext(r, typ, parent, i) ==
    IF r.panicked THEN r ELSE addFields(r.g, typ, parent, i + 1, r.ret)

\* panic("tsreflect: namer returned taken name"): nothing is bound; the
\* naming is remembered with the type the name was bound to
refuse(g, typ, name) ==
    Panic([g EXCEPT !.refused = @ \cup {[typ |-> typ, name |-> name, bound |-> g.names[name]]}])

\* a naming that binds whatever name the namer returned
nameStructUnchecked(g, typ, name) == Ret(bindStruct(g, typ, name), FALSE)

\* name := g.namer(typ, g.isNameTaken), and the binding of the name
nameStruct(g, typ, name) ==
    IF isNameTaken(g, name) THEN refuse(g, typ, name) ELSE Ret(bindStruct(g, typ, name), FALSE)

\* the reflect.Struct case after its loop
endStruct(g, typ) ==
    IF Name(typ) # "" /\ countExportedFields(typ) > 0
    THEN nameStruct(g, typ, applyNamer(g, typ))
    ELSE Ret(g, FALSE)

\* the reflect.Struct case once its loop has ended as loop
afterFields(loop, typ) ==
    IF loop.panicked THEN loop
    ELSE endStruct(markCircular(loop.g, typ, loop.ret), typ)

\* the reflect.Struct case
addStruct(g, typ, parent) == afterFields(addFields(g, typ, parent, 1, FALSE), typ)

\* g.add(key) || g.add(elem): the element is walked only when the walk of the
\* key, which ended as k, returned false
addElem(k, typ, parent, name, asy, impl) ==
    IF k.panicked \/ k.ret THEN k
    ELSE add(k.g, Elem(typ), parent, name, asy, impl)

\* switch typ.Kind()
addKind(g, typ, kind, parent, name, asy, impl) ==
    CASE kind \in {"Array", "Slice", "Pointer"} ->
            add(g, Elem(typ), parent, name, asy, impl)
      [] kind = "Map" ->
            addElem(add(g, Key(typ), parent, name, asy, impl), typ, parent, name, asy, impl)
      [] kind = "Func" -> Ret(bindFunc(g, typ, name, asy, impl), TRUE)
      [] kind = "Struct" -> addStruct(g, typ, parent)
      [] OTHER -> Ret(g, FALSE)

add(g, typ, parent, name, asy, impl) ==
    IF typ = Nil THEN Ret(g, FALSE)
    ELSE IF isVisited(g, typ) THEN Ret(g, typ = parent)
    ELSE addKind(markVisited(g, typ), typ, Kind(typ), parent, name, asy, impl)

(***************************************************************************)
(* Strings.                                                                *)
(***************************************************************************)
\* the printable ASCII characters in code order: 32..95 and 97..126
AsciiTo95 == " !\"#$%&'()*+,-./0123456789:;<=>?@ABCDEFGHIJKLMNOPQRSTUVWXYZ[\\]^_"
AsciiFrom97 == "abcdefghijklmnopqrstuvwxyz{|}~"

RECURSIVE indexIn(_, _, _)
indexIn(c, s, i) ==
    IF s = "" THEN 0
    ELSE IF Head(s) = c THEN i
    ELSE indexIn(c, Tail(s), i + 1)

\* the byte value of a one-character string
Code(c) ==
    LET i == indexIn(c, AsciiTo95, 1)
    IN  IF i > 0 THEN 31 + i ELSE 96 + indexIn(c, AsciiFrom97, 1)

\* a < b as Go compares strings: bytewise
RECURSIVE StrLess(_, _)
StrLess(a, b) ==
    IF b = "" THEN FALSE
    ELSE IF a = "" THEN TRUE
    ELSE IF Head(a) = Head(b) THEN StrLess(Tail(a), Tail(b))
    ELSE Code(Head(a)) < Code(Head(b))

\* strings.ContainsRune(s, c)
RECURSIVE ContainsRune(_, _)
ContainsRune(s, c) ==
    IF s = "" THEN FALSE
    ELSE Head(s) = c \/ ContainsRune(Tail(s), c)

\* strings.Split(s, sep) for a one-character separator
RECURSIVE splitFrom(_, _, _, _)
splitFrom(s, sep, cur, acc) ==
    IF s = "" THEN Append(acc, cur)
    ELSE IF Head(s) = sep THEN splitFrom(Tail(s), sep, "", Append(acc, cur))
    ELSE splitFrom(Tail(s), sep, cur \o Head(s), acc)
Split(s, sep) == splitFrom(s, sep, "", <<>>)

\* fmt's %q for a string of printable ASCII
RECURSIVE escape(_)
escape(s) ==
    IF s = "" THEN ""
    ELSE (IF Head(s) \in {"\"", "\\"} THEN "\\" ELSE "") \o Head(s) \o escape(Tail(s))
Quote(s) == "\"" \o escape(s) \o "\""

(***************************************************************************)
(* The renderer.  A rendering yields the text written so far, the number   *)
(* of calls of the warning sink, and how it ended: "none" (it returned),   *)
(* "panic" (a run-time panic of reflect) or "overflow" (the recursion came *)
(* back to a struct whose fields it is in the middle of writing: since the *)
(* text of a struct depends on the struct and the tables only, it never    *)
(* returns and the goroutine stack overflows).                             *)
(***************************************************************************)
Out(text) == [abort |-> "none", text |-> text, warns |-> 0]
Abort(how) == [abort |-> how, text |-> "", warns |-> 0]
Warned(r) == [r EXCEPT !.warns = @ + 1]

\* a followed by b; b is not reached when a did not return
Cat(a, b) ==
    IF a.abort # "none" THEN a
    ELSE [abort |-> b.abort, text |-> a.text \o b.text, warns |-> a.warns + b.warns]

hasInterface(u, typ) ==
    IF Kind(typ) = "Pointer" /\ Implements(typ, u)
    THEN ~Implements(Elem(typ), u)
    ELSE Implements(typ, u)

\* the Typer functions of New, and one given with WithTyper
applyTyper(typer, typ, optional) ==
    CASE typer = "byteSlice" -> IF optional THEN "string" ELSE "(string | null)"
      [] typer = "time" -> "string"
      [] typer = "bigInt" -> IF optional THEN "number" ELSE "(number | null)"
      [] typer = "record" -> "Record<string, string>"

\* name := g.symbols[typ]
symbolOf(g, typ) == IF typ \in DOMAIN g.symbols THEN g.symbols[typ] ELSE ""

\* whether the reflect.Struct case of typeOf writes the body instead of the name
inlines(g, typ) ==
    symbolOf(g, typ) = "" \/ (typ \notin g.circular /\ g.flatten)

NumberKinds == {"Int", "Int8", "Int16", "Int32", "Int64", "Uint", "Uint8", "Uint16",
                "Uint32", "Uint64", "Uintptr", "Float32", "Float64"}

RECURSIVE repeat(_, _)
\* strings.Join of n copies of s with ", "
repeat(s, n) ==
    IF n = 0 THEN "" ELSE IF n = 1 THEN s ELSE s \o ", " \o repeat(s, n - 1)

\* the tag structField works with: the json tag, or the yaml tag when the
\* json tag is missing or empty
fieldTag(f) ==
    LET j == TagLookup(f, "json")
        y == TagLookup(f, "yaml")
        tag == IF j.ok THEN j.value ELSE ""
    IN  IF y.ok /\ tag = "" THEN y.value ELSE tag

\* parts := strings.Split(tag, ","): the name from parts[0], the option from
\* parts[1]
partsSpec(f, parts) ==
    [name |-> IF parts[1] # "" THEN parts[1] ELSE f.name,
     typ  |-> IF parts[2] = "string" THEN "string" ELSE "",
     omit |-> parts[2] = "omitempty"]

\* if tag != "" { ... }
tagSpec(f, tag) ==
    IF tag = "" THEN [name |-> f.name, typ |-> "", omit |-> FALSE]
    ELSE IF ~ContainsRune(tag, ",") THEN [name |-> tag, typ |-> "", omit |-> FALSE]
    ELSE partsSpec(f, Split(tag, ","))

\* the name, the forced type and the omit flag structField reads off the tag
fieldSpec(f) == tagSpec(f, fieldTag(f))

RECURSIVE typeOf(_, _, _, _), typeOfKind(_, _, _, _, _), writeStructDecl(_, _, _),
          writeStructFields(_, _, _), fieldsFrom(_, _, _, _), writeField(_, _, _),
          structField(_, _, _), formatField(_, _, _, _)

\* the end of structField: the type, unless the tag forced one, and the
\* formatting as %q?: %s or %q: %s
formatField(g, f, fs, path) ==
    Cat(Out(Quote(fs.name) \o (IF fs.omit THEN "?: " ELSE ": ")),
        IF fs.typ = "" THEN typeOf(g, f.type, fs.omit, path) ELSE Out(fs.typ))

structField(g, f, path) == formatField(g, f, fieldSpec(f), path)

\* one round of the loop of writeStructFields, for field f
writeField(g, f, path) ==
    IF ~f.exported \/ hasTagOmit(f) THEN Out("")
    ELSE IF f.anonymous THEN writeStructFields(g, f.type, path)
    ELSE Cat(structField(g, f, path), Out("; "))

\* the loop of writeStructFields, from field i on
fieldsFrom(g, typ, i, path) ==
    IF i > NumField(typ) THEN Out("")
    ELSE Cat(writeField(g, Field(typ, i), path), fieldsFrom(g, typ, i + 1, path))

writeStructFields(g, typ, path) ==
    IF Kind(typ) # "Struct" THEN Abort("panic")        \* typ.NumField()
    ELSE IF typ \in path THEN Abort("overflow")
    ELSE fieldsFrom(g, typ, 1, path \cup {typ})

writeStructDecl(g, typ, path) ==
    Cat(Out("{ "), Cat(writeStructFields(g, typ, path), Out("}")))

\* fmt.Sprintf("[%s]", strings.Join(s, ", ")) for n copies of elem
arrayText(elem, n) ==
    IF elem.abort # "none" THEN elem
    ELSE [elem EXCEPT !.text = "[" \o repeat(@, n) \o "]"]

\* a kind switch that renders every kind as any
typeOfKindAny(g, typ, kind, optional, path) == Out("any")

\* switch typ.Kind()
typeOfKind(g, typ, kind, optional, path) ==
    CASE kind = "Bool" -> Out("boolean")
      [] kind \in NumberKinds -> Out("number")
      [] kind = "String" -> Out("string")
      [] kind = "Array" -> arrayText(typeOf(g, Elem(typ), FALSE, path), ArrayLen(typ))
      [] kind = "Slice" ->
            Cat(Out(IF optional THEN "" ELSE "("),
            Cat(typeOf(g, Elem(typ), FALSE, path),
                Out(IF optional THEN "[]" ELSE "[] | null)")))
      [] kind = "Map" ->
            Cat(Out(IF optional THEN "{ [key in (" ELSE "({ [key in ("),
            Cat(typeOf(g, Key(typ), FALSE, path),
            Cat(Out(")]: ("),
            Cat(typeOf(g, Elem(typ), FALSE, path),
                Out(IF optional THEN ") }" ELSE ") } | null)")))))
      [] kind = "Pointer" ->
            Cat(Out(IF optional THEN "" ELSE "("),
            Cat(typeOf(g, Elem(typ), FALSE, path),
                Out(IF optional THEN "" ELSE " | null)")))
      [] kind = "Struct" ->
            IF inlines(g, typ) THEN writeStructDecl(g, typ, path)
            ELSE Out(symbolOf(g, typ))
      [] kind = "Interface" -> Out("any")
      [] OTHER -> Out("")

\* a variant of warnMarshaler that does not look at g.warnings
warnMarshalerAlways(g, typ, r) ==
    IF hasInterface(Marshalers, typ) THEN Warned(r) ELSE r

\* if hasInterface(typeOfMarshaler, typ) && g.warnings { g.warn(...) }, ahead
\* of the rendering r of the kind switch
warnMarshaler(g, typ, r) ==
    IF hasInterface(Marshalers, typ) /\ g.warnings THEN Warned(r) ELSE r

typeOf(g, typ, optional, path) ==
    IF typ = Nil THEN Out("any")
    ELSE IF hasInterface(TypeScriptTypers, typ) THEN Out(TypeScriptType(typ, optional))
    ELSE IF typ \in DOMAIN g.typers THEN Out(applyTyper(g.typers[typ], typ, optional))
    ELSE warnMarshaler(g, typ, typeOfKind(g, typ, Kind(typ), optional, path))

(***************************************************************************)
(* Declarations.                                                           *)
(***************************************************************************)
\* a lookup that forgets the TypeScriptTyper implementations
hasCustomTypeTypersOnly(g, typ) == typ \in DOMAIN g.typers

hasCustomType(g, typ) == typ \in DOMAIN g.typers \/ hasInterface(TypeScriptTypers, typ)

Upper == "ABCDEFGHIJKLMNOPQRSTUVWXYZ"
Lower == "abcdefghijklmnopqrstuvwxyz"

\* the i-th lower-case letter, or c itself when i = 0
lowerAt(c, i) == IF i > 0 THEN SubSeq(Lower, i, i) ELSE c

\* strings.ToLower of a one-character string
ToLower(c) == lowerAt(c, indexIn(c, Upper, 1))

RECURSIVE argsFrom(_, _, _), outsFrom(_, _, _)
\* the parameter loop of writeFuncDecl; i counts from 0 as in the code
argsFrom(g, ins, i) ==
    IF i >= Len(ins) THEN Out("")
    ELSE Cat(Out((IF i > 0 THEN ", " ELSE "") \o "arg" \o ToString(i) \o ": "),
         Cat(typeOf(g, ins[i + 1], FALSE, {}),
             argsFrom(g, ins, i + 1)))

\* the results of typ that are not the error type
outTypes(typ) == SelectSeq(TypeTable[typ].outs, LAMBDA out : out # typeOfError)

\* the loop over outTypes, from the i-th on
outsFrom(g, outs, i) ==
    IF i > Len(outs) THEN Out("")
    ELSE Cat(Out(IF i > 1 THEN ", " ELSE ""),
         Cat(typeOf(g, outs[i], FALSE, {}), outsFrom(g, outs, i + 1)))

\* writeFuncDecl for the parameters ins and the results outs
funcText(g, ins, outs, asy, implementation) ==
    Cat(Out("("),
    Cat(argsFrom(g, ins, 0),
    Cat(Out("): " \o (IF asy THEN "Promise<" ELSE "")
                  \o (IF Len(outs) = 0 THEN "void" ELSE IF Len(outs) > 1 THEN "(" ELSE "")),
    Cat(outsFrom(g, outs, 1),
        Out((IF Len(outs) > 1 THEN ")" ELSE "") \o (IF asy THEN ">" ELSE "")
            \o (IF implementation # "" THEN "{\n" \o implementation \o "\n}" ELSE ""))))))

writeFuncDecl(g, typ, asy, implementation) ==
    funcText(g, TypeTable[typ].ins, outTypes(typ), asy, implementation)

\* how often Declarations appends name to its list: once per symbols entry
\* with that name, once more when g.names binds it to a function type
nameCount(g, name) ==
    Cardinality({t \in DOMAIN g.symbols : g.symbols[t] = name})
    + (IF name \in DOMAIN g.names /\ Kind(g.names[name]) = "Func" THEN 1 ELSE 0)

collectedNames(g) ==
    {g.symbols[t] : t \in DOMAIN g.symbols}
    \cup {n \in DOMAIN g.names : Kind(g.names[n]) = "Func"}

\* the least of a set of names, as Go compares strings
leastOf(rest) == CHOOSE n \in rest : \A m \in rest : ~StrLess(m, n)

RECURSIVE sortStrings(_, _), sortFrom(_, _, _)
\* sort.Strings over the collected names: the least name first, as often as
\* it was collected
sortStrings(g, rest) ==
    IF rest = {} THEN << >> ELSE sortFrom(g, rest, leastOf(rest))

sortFrom(g, rest, least) ==
    [i \in 1..nameCount(g, least) |-> least] \o sortStrings(g, rest \ {least})

\* g.async[name], g.implementations[name]
asyncOf(g, name) == IF name \in DOMAIN g.async THEN g.async[name] ELSE FALSE
implementationOf(g, name) ==
    IF name \in DOMAIN g.implementations THEN g.implementations[name] ELSE ""

Decls(ds) == [abort |-> "none", decls |-> ds, warns |-> 0]

\* ds = append(ds, Declaration{...}) with the text the writer left in sb
declared(name, isFunction, body) ==
    [abort |-> body.abort, warns |-> body.warns,
     decls |-> << [Name |-> name, Type |-> body.text, IsFunction |-> isFunction] >>]

\* the reflect.Func branch, with name already lowered
declareFunc(g, typ, name) ==
    declared(name, TRUE, writeFuncDecl(g, typ, asyncOf(g, name), implementationOf(g, name)))

\* one round of the loop of Declarations, for name and typ := g.names[name]
declareType(g, name, typ) ==
    IF typ \notin g.circular /\ g.flatten THEN Decls(<< >>)
    ELSE IF hasCustomType(g, typ) THEN Decls(<< >>)
    ELSE IF Kind(typ) = "Func"
    THEN IF name = "" THEN [abort |-> "panic", decls |-> << >>, warns |-> 0]  \* name[0:1]
         ELSE declareFunc(g, typ, ToLower(Head(name)) \o Tail(name))
    ELSE declared(name, FALSE, writeStructDecl(g, typ, {}))

declare(g, name) == declareType(g, name, g.names[name])

\* the declarations d of one round, followed by those of the rounds after it
thenDecls(d, rest) ==
    IF d.abort # "none" THEN [d EXCEPT !.decls = << >>]
    ELSE [abort |-> rest.abort, warns |-> d.warns + rest.warns,
          decls |-> IF rest.abort # "none" THEN << >> ELSE d.decls \o rest.decls]

RECURSIVE declareFrom(_, _, _)
\* the loop of Declarations over the sorted names, from the i-th on
declareFrom(g, sorted, i) ==
    IF i > Len(sorted) THEN Decls(<< >>)
    ELSE thenDecls(declare(g, sorted[i]), declareFrom(g, sorted, i + 1))

Declarations(g) == declareFrom(g, sortStrings(g, collectedNames(g)), 1)

\* what declarations writes for one declaration
declText(g, decl, jsDoc) ==
    (IF jsDoc THEN "/** @typedef {"
     ELSE (IF g.export THEN "export " ELSE "")
          \o (IF decl.IsFunction
              THEN (IF asyncOf(g, decl.Name) THEN "async " ELSE "") \o "function " \o decl.Name
              ELSE "interface " \o decl.Name \o " "))
    \o decl.Type
    \o (IF jsDoc THEN "} " \o decl.Name \o " */" ELSE "")

RECURSIVE joinDecls(_, _, _, _)
\* the loop of declarations over decls, from the i-th on
joinDecls(g, decls, i, jsDoc) ==
    IF i > Len(decls) THEN ""
    ELSE declText(g, decls[i], jsDoc) \o (IF i < Len(decls) THEN "\n" ELSE "")
         \o joinDecls(g, decls, i + 1, jsDoc)

\* declarations(jsDoc), once g.Declarations() has ended as r
declarations(g, jsDoc, r) ==
    [abort |-> r.abort, warns |-> r.warns,
     text |-> IF r.abort = "none" THEN joinDecls(g, r.decls, 1, jsDoc) ELSE ""]

(***************************************************************************)
(* The calls a client makes.                                               *)
(***************************************************************************)
Call(op, typ) ==
    [op |-> op, typ |-> typ, abort |-> "none", text |-> "", decls |-> << >>, warns |-> 0]

\* the tables of g become the generator's
Install(g) ==
    /\ types' = g.types
    /\ circular' = g.circular
    /\ symbols' = g.symbols
    /\ names' = g.names
    /\ async' = g.async
    /\ implementations' = g.implementations
    /\ dispatched' = g.dispatched
    /\ refused' = g.refused
    /\ UNCHANGED << flatten, warnings, export, namer, typers >>

\* the walk r of call was made
Walked(call, r) ==
    /\ Install(r.g)
    /\ last' = [call EXCEPT !.abort = IF r.panicked THEN "panic" ELSE "none"]

\* the rendering r was returned to call
Rendered(call, r) ==
    last' = [call EXCEPT !.abort = r.abort, !.text = r.text, !.warns = r.warns]

\* the declarations r were returned to call
Listed(call, r) ==
    last' = [call EXCEPT !.abort = r.abort, !.decls = r.decls, !.warns = r.warns]

Add(typ) ==
    /\ Walked(Call("Add", typ), add(G, typ, Nil, "", FALSE, ""))
    /\ calls' = Append(calls, [op |-> "Add", typ |-> typ, name |-> ""])

AddFunc(typ, name, asy, implementation) ==
    /\ IF Len(implementation) > 1
       THEN /\ last' = [Call("AddFunc", typ) EXCEPT !.abort = "panic"]
            /\ UNCHANGED << flatten, warnings, export, namer, typers, types, circular, symbols, names,
                            async, implementations, dispatched, refused >>
       ELSE Walked(Call("AddFunc", typ),
                   add(G, typ, Nil, name, asy,
                       IF Len(implementation) = 1 THEN implementation[1] ELSE ""))
    /\ calls' = Append(calls, [op |-> "AddFunc", typ |-> typ, name |-> name])

\* a TypeOf that registers the type it renders
TypeOfRegistering(typ) ==
    /\ Rendered(Call("TypeOf", typ), typeOf(G, typ, FALSE, {}))
    /\ Install(add(G, typ, Nil, "", FALSE, "").g)
    /\ UNCHANGED calls

TypeOf(typ) ==
    /\ Rendered(Call("TypeOf", typ), typeOf(G, typ, FALSE, {}))
    /\ UNCHANGED << flatten, warnings, export, namer, typers, types, circular, symbols, names,
                    async, implementations, dispatched, refused, calls >>

DeclarationsTypeScript ==
    /\ Rendered(Call("DeclarationsTypeScript", Nil), declarations(G, FALSE, Declarations(G)))
    /\ UNCHANGED << flatten, warnings, export, namer, typers, types, circular, symbols, names,
                    async, implementations, dispatched, refused, calls >>

DeclarationsJSDoc ==
    /\ Rendered(Call("DeclarationsJSDoc", Nil), declarations(G, TRUE, Declarations(G)))
    /\ UNCHANGED << flatten, warnings, export, namer, typers, types, circular, symbols, names,
                    async, implementations, dispatched, refused, calls >>

ListDeclarations ==
    /\ Listed(Call("Declarations", Nil), Declarations(G))
    /\ UNCHANGED << flatten, warnings, export, namer, typers, types, circular, symbols, names,
                    async, implementations, dispatched, refused, calls >>

\* New(options...): the options pick flatten, warnings, the namer, the
\* typers added to the built-in ones, and export
InitExporting(flattens, warns, namers, typerSets, exports) ==
    /\ flatten \in flattens
    /\ warnings \in warns
    /\ export \in exports
    /\ namer \in namers
    /\ typers \in typerSets
    /\ types = {}
    /\ circular = {}
    /\ symbols = EmptyMap
    /\ names = EmptyMap
    /\ async = EmptyMap
    /\ implementations = EmptyMap
    /\ dispatched = [t \in TypeIds |-> 0]
    /\ refused = {}
    /\ calls = << >>
    /\ last = Call("New", Nil)

\* New without ExportEverything
InitOptions(flattens, warns, namers, typerSets) ==
    InitExporting(flattens, warns, namers, typerSets, {FALSE})

\* New with the default namer and the built-in typers
InitWith(flattens, warns) == InitOptions(flattens, warns, {"default"}, {BuiltinTypers})

(***************************************************************************)
(* Specifications.  Every run makes a bounded number of registrations.     *)
(* Spec registers struct types (plain, cyclic, with overrides) and renders *)
(* them; SpecFunc also registers functions; SpecNames registers types that *)
(* share a short name; SpecFields renders structs with tagged, optional    *)
(* and embedded fields.                                                    *)
(***************************************************************************)
Within(n) == Len(calls) < n

\* the types handed to Add and TypeOf
Roots == {"c", "cs", "MA", "MB", "Holder", "Outer", "Inner", "MyCustomStruct"}

Init == InitWith(BOOLEAN, {TRUE})

Next ==
    \/ \E typ \in Roots : Within(MaxOps) /\ Add(typ)
    \/ \E typ \in Roots : TypeOf(typ)
    \/ ListDeclarations

Spec == Init /\ [][Next]_vars

FuncRoots == {"S#1", "Cb", "c", "func()"}
FuncNames == {"S", "Greet"}
Impls == {<< >>, << "return 1" >>}

NextFunc ==
    \/ \E typ \in FuncRoots : Within(MaxOps) /\ Add(typ)
    \/ \E name \in FuncNames, asy \in BOOLEAN, impl \in Impls :
            Within(MaxOps) /\ AddFunc("func(int) (string, error)", name, asy, impl)
    \/ \E typ \in FuncRoots : TypeOf(typ)
    \/ ListDeclarations

SpecFunc == Init /\ [][NextFunc]_vars

\* four struct types of short name S, one of them holding another, and a
\* struct type whose short name is S2
NameRoots == {"S#1", "S#2", "S#3", "S#4", "S2"}

NextNames ==
    \/ \E typ \in NameRoots : Within(MaxNameOps) /\ Add(typ)
    \/ Within(MaxNameOps) /\ AddFunc("func()", "S2", FALSE, << >>)
    \/ ListDeclarations

SpecNames == Init /\ [][NextNames]_vars

FieldRoots == {"MyStruct", "Tags", "Opt", "Derived"}

NextFields ==
    \/ \E typ \in FieldRoots : Within(MaxOps) /\ Add(typ)
    \/ \E typ \in FieldRoots : TypeOf(typ)
    \/ ListDeclarations

SpecFields == Init /\ [][NextFields]_vars

\* types with MarshalJSON: with a TypeScriptType method, with nothing, behind
\* a pointer, and with a built-in Typer
WarnRoots == {"MyCustomStruct", "Marshaled", "*Marshaled", "time.Time"}

\* New with and without WithFlatten and WithNoWarnings
InitWarn == InitWith(BOOLEAN, BOOLEAN)

NextWarn ==
    \/ \E typ \in WarnRoots : Within(MaxOps) /\ Add(typ)
    \/ \E typ \in WarnRoots : TypeOf(typ)
    \/ ListDeclarations

SpecWarn == InitWarn /\ [][NextWarn]_vars

\* the types handed to Add and TypeOf where overrides are exercised
OverrideRoots == {"MyCustomStruct", "Rec", "Wrap"}

\* New with and without WithFlatten and WithTyper(Rec, ...)
InitOverride ==
    InitOptions(BOOLEAN, {TRUE}, {"default"},
                {BuiltinTypers, BuiltinTypers @@ ("Rec" :> "record")})

NextOverride ==
    \/ \E typ \in OverrideRoots : Within(MaxOps) /\ Add(typ)
    \/ \E name \in {"Rec", "Greet"} : Within(MaxOps) /\ AddFunc("func()", name, FALSE, << >>)
    \/ \E typ \in OverrideRoots : TypeOf(typ)
    \/ ListDeclarations

SpecOverride == InitOverride /\ [][NextOverride]_vars

\* the types handed to Add and TypeOf where the traversal is exercised
WalkRoots == {"Empty", "Shell", "HasEmpty", "time.Time", "Derived", "N", "K", "V", "Own"}

NextWalk ==
    \/ \E typ \in WalkRoots : Within(MaxOps) /\ Add(typ)
    \/ \E typ \in WalkRoots : TypeOf(typ)
    \/ ListDeclarations

SpecWalk == Init /\ [][NextWalk]_vars

\* the types and function names registered where the order of the
\* declarations is exercised
OrderRoots == {"S#1", "c"}
OrderNames == {"Ab", "aa", "S"}

NextOrder ==
    \/ \E typ \in OrderRoots : Within(MaxOps) /\ Add(typ)
    \/ \E name \in OrderNames, asy \in BOOLEAN :
            Within(MaxOps) /\ AddFunc("func()", name, asy, << >>)
    \/ ListDeclarations

SpecOrder == Init /\ [][NextOrder]_vars

\* the types handed to Add where the namer is exercised
NamerRoots == {"S#1", "S#2", "Inner", "Outer"}

\* New with and without WithFlatten and WithNamer
InitNamer == InitOptions(BOOLEAN, {TRUE}, {"default", "constant"}, {BuiltinTypers})

NextNamer ==
    \/ \E typ \in NamerRoots : Within(MaxOps) /\ Add(typ)
    \/ \E typ \in NamerRoots : TypeOf(typ)
    \/ ListDeclarations

SpecNamer == InitNamer /\ [][NextNamer]_vars

\* the types handed to Add and TypeOf where the kinds are exercised
KindRoots == {"chan struct {}", "func()", "complex64", "complex128", "unsafe.Pointer", "Ch",
              "bool", "uint8", "float64", "uintptr", "string", "interface {}"}

NextKinds ==
    \/ \E typ \in KindRoots : Within(MaxOps) /\ Add(typ)
    \/ \E typ \in KindRoots : TypeOf(typ)
    \/ ListDeclarations

SpecKinds == InitWarn /\ [][NextKinds]_vars

\* the types handed to Add and TypeOf where embedded fields are exercised
EmbedRoots == {"E", "SU", "Str", "Derived"}

NextEmbed ==
    \/ \E typ \in EmbedRoots : Within(MaxOps) /\ Add(typ)
    \/ \E typ \in EmbedRoots : TypeOf(typ)
    \/ ListDeclarations

SpecEmbed == Init /\ [][NextEmbed]_vars

\* the names functions are registered under where their declarations are
\* exercised
DeclNames == {"Greet", "greet"}

\* New with and without WithFlatten and ExportEverything
InitDecl == InitExporting(BOOLEAN, {TRUE}, {"default"}, {BuiltinTypers}, BOOLEAN)

NextDecl ==
    \/ \E name \in DeclNames, asy \in BOOLEAN, impl \in Impls :
            Within(MaxOps) /\ AddFunc("func(int) (string, error)", name, asy, impl)
    \/ ListDeclarations
    \/ DeclarationsTypeScript
    \/ DeclarationsJSDoc

SpecDecl == InitDecl /\ [][NextDecl]_vars

(***************************************************************************)
(* The type graph, read off the descriptors alone.                         *)
(***************************************************************************)
StructIds == {t \in TypeIds : Kind(t) = "Struct"}
NamedStructs == {t \in StructIds : Name(t) # ""}

\* a field the JSON encoding leaves out: json:"-", or yaml:"-" without a json tag
Omitted(f) ==
    \/ f.tag.json = << "-" >>
    \/ f.tag.json = << >> /\ f.tag.yaml = << "-" >>

\* the fields of a struct that are exported and not left out, in order
Emittable(t) == SelectSeq(TypeTable[t].fields, LAMBDA f : f.exported /\ ~Omitted(f))
FieldTypes(t) == {Emittable(t)[i].type : i \in 1..Len(Emittable(t))}

\* the types a type refers to directly
Refs(t) ==
    ({Elem(t), Key(t)} \ {Nil}) \cup (IF Kind(t) = "Struct" THEN FieldTypes(t) ELSE {})

RECURSIVE closure(_)
closure(ts) ==
    LET more == ts \cup UNION {Refs(t) : t \in ts}
    IN  IF more = ts THEN ts ELSE closure(more)

\* the types reachable from t in one or more steps
Reach(t) == closure(Refs(t))
OnCycle(t) == t \in Reach(t)

PointsTo(t, u) == \E ft \in FieldTypes(t) : Kind(ft) = "Pointer" /\ Elem(ft) = u
HasSliceOf(t, u) == \E ft \in FieldTypes(t) : Kind(ft) = "Slice" /\ Elem(ft) = u

\* the three shapes of self reference: pointer to self, slice of self, and
\* two named structs pointing to each other
SelfReferential(t) ==
    /\ t \in NamedStructs
    /\ \/ PointsTo(t, t)
       \/ HasSliceOf(t, t)
       \/ \E u \in NamedStructs \ {t} : PointsTo(t, u) /\ PointsTo(u, t)

AddCall(t) == [op |-> "Add", typ |-> t, name |-> ""]
Added(t) == \E i \in 1..Len(calls) : calls[i] = AddCall(t)

(***************************************************************************)
(* Claims.                                                                 *)
(***************************************************************************)

\* C1: after Add(T) on a fresh generator, every self-referential named struct
\* T (pointer to self, slice of self, or mutual) is in the circular set and
\* TypeOf(T) returns T's assigned name, with and without flatten.
C1_SelfReferentialIsCircular ==
    \A t \in TypeIds :
        (SelfReferential(t) /\ calls = << AddCall(t) >>) =>
            /\ t \in circular
            /\ t \in DOMAIN symbols
            /\ typeOf(G, t, FALSE, {}) = Out(symbols[t])

\* C2: once Add(T) has returned, TypeOf(T) and Declarations() return (the
\* recursion of typeOf and writeStructFields does not go on for ever), for
\* either setting of flatten.
C2_RenderingTerminates ==
    /\ (last.op = "TypeOf" /\ Added(last.typ)) => last.abort # "overflow"
    /\ last.op = "Declarations" => last.abort # "overflow"

\* C3: across any sequence of Add and AddFunc calls, the kind switch of add
\* is entered at most once for each type that is not a function type.
C3_DispatchedAtMostOnce ==
    \A t \in TypeIds : Kind(t) # "Func" => dispatched[t] <= 1

\* C3 witness: the same struct was handed to Add twice, and its kind switch
\* and that of its field's type were entered once.
C3_Witness ==
    /\ Len(calls) = 2
    /\ calls[1] = AddCall("c") /\ calls[2] = AddCall("c")
    /\ dispatched["c"] = 1 /\ dispatched["int"] = 1

\* C4: calling Add(T) again right after Add(T) leaves visited, circular,
\* symbols and names as they were, and with them Declarations() and the
\* TypeOf of every type.
C4_AddTwiceChangesNothing ==
    [][(/\ Len(calls) >= 1
        /\ calls[Len(calls)].op = "Add"
        /\ calls' = Append(calls, calls[Len(calls)]))
       => /\ types' = types
          /\ circular' = circular
          /\ symbols' = symbols
          /\ names' = names
          /\ Declarations(GNext) = Declarations(G)
          /\ \A u \in TypeIds : typeOf(GNext, u, FALSE, {}) = typeOf(G, u, FALSE, {})]_vars

\* C4 witness: Add was called twice in a row on a struct that has a name.
C4_Witness ==
    /\ Len(calls) = 2
    /\ calls[1] = AddCall("S#1") /\ calls[2] = AddCall("S#1")
    /\ last.op = "Add"
    /\ symbols = ("S#1" :> "S")

\* C5: a name bound in names is never rebound to another type.
C5_NamesNeverRebound ==
    [][\A n \in DOMAIN names : n \in DOMAIN names' /\ names'[n] = names[n]]_vars

(***************************************************************************)
(* Names.                                                                  *)
(***************************************************************************)
\* the k-th name the default strategy tries for the short name x
candidate(x, k) == IF k = 1 THEN x ELSE x \o ToString(k)

\* which of the names tried for t the name n is; 0 when it is none of them
tried(t, n, bound) ==
    IF \E k \in 1..bound : n = candidate(Name(t), k)
    THEN CHOOSE k \in 1..bound : n = candidate(Name(t), k)
    ELSE 0

\* the names tried for t before its own name are all bound
FirstFree(t) ==
    /\ tried(t, symbols[t], Cardinality(DOMAIN names)) > 0
    /\ \A j \in 1..(tried(t, symbols[t], Cardinality(DOMAIN names)) - 1) :
            candidate(Name(t), j) \in DOMAIN names

\* no two struct types have the same name
SymbolsInjective == \A t, u \in DOMAIN symbols : symbols[t] = symbols[u] => t = u

\* a struct keeps its name, and a struct named in this step gets a later name
\* than the structs of its short name that had one before
NamedLater ==
    \A t \in DOMAIN symbols :
        /\ t \in DOMAIN symbols' /\ symbols'[t] = symbols[t]
        /\ \A u \in (DOMAIN symbols') \ (DOMAIN symbols) :
                Name(u) = Name(t) =>
                    tried(u, symbols'[u], Cardinality(DOMAIN names')) >
                    tried(t, symbols[t], Cardinality(DOMAIN names))

\* the calls so far are Add calls on pairwise distinct named structs of one
\* short name that have a field to emit
SharedNameRun ==
    /\ Len(calls) >= 1
    /\ \A i \in 1..Len(calls) :
            /\ calls[i].op = "Add"
            /\ calls[i].typ \in NamedStructs
            /\ Name(calls[i].typ) = Name(calls[1].typ)
            /\ Len(Emittable(calls[i].typ)) > 0
    /\ \A i, j \in 1..Len(calls) : calls[i].typ = calls[j].typ => i = j

\* C6: under the default naming strategy, the distinct named structs of one
\* short name X registered in sequence get the names X, X2, X3, ... in the
\* order of their registration, and no two types get the same name.
C6_NamedInRegistrationOrder ==
    SharedNameRun =>
        /\ \A i \in 1..Len(calls) :
                /\ calls[i].typ \in DOMAIN symbols
                /\ symbols[calls[i].typ] = candidate(Name(calls[1].typ), i)
        /\ SymbolsInjective

\* C6, amended: a struct of short name X gets, when the walker has finished
\* its fields, the first of X, X2, X3, ... that is not bound in names; it
\* keeps that name, structs of the same short name that are finished later
\* get later names, and no two structs get the same name.
C6_FirstFreeName ==
    /\ [](\A t \in DOMAIN symbols : FirstFree(t))
    /\ []SymbolsInjective
    /\ [][NamedLater]_vars

\* C6 witness: three structs of short name S were registered one after the
\* other and got S, S2 and S3.
C6_Witness ==
    /\ calls = << AddCall("S#1"), AddCall("S#2"), AddCall("S#3") >>
    /\ symbols = ("S#1" :> "S") @@ ("S#2" :> "S2") @@ ("S#3" :> "S3")

(***************************************************************************)
(* Flatten.                                                                *)
(***************************************************************************)
HasPrefix(s, p) == Len(s) >= Len(p) /\ SubSeq(s, 1, Len(p)) = p
HasSuffix(s, p) == Len(s) >= Len(p) /\ SubSeq(s, Len(s) - Len(p) + 1, Len(s)) = p

\* a type with a registered Typer or a TypeScriptType method
Overridden(t) == t \in DOMAIN typers \/ t \in TypeScriptTypers

\* a registered named struct on no cycle, rendered structurally
Plain(t) ==
    /\ t \in NamedStructs
    /\ t \in DOMAIN symbols
    /\ ~OnCycle(t)
    /\ ~Overridden(t)

\* the declarations last returned hold one for t
InDeclarations(t) == \E i \in 1..Len(last.decls) : last.decls[i].Name = symbols[t]

\* C7: for a registered named struct T on no cycle, with flatten off
\* TypeOf(T) is T's name and Declarations() holds T; with flatten on
\* TypeOf(T) is T's inline body and Declarations() does not hold T.
C7_FlattenPolicy ==
    /\ (last.op = "TypeOf" /\ last.typ \in TypeIds /\ Plain(last.typ)) =>
            /\ last.abort = "none"
            /\ IF flatten
               THEN HasPrefix(last.text, "{ ") /\ HasSuffix(last.text, "}")
               ELSE last.text = symbols[last.typ]
    /\ last.op = "Declarations" =>
            /\ last.abort = "none"
            /\ \A t \in TypeIds : Plain(t) => (InDeclarations(t) <=> ~flatten)

(***************************************************************************)
(* Struct bodies.                                                          *)
(***************************************************************************)
\* the tag the encoding reads: the json tag, the yaml tag when there is none
TagText(f) ==
    IF f.tag.json # << >> /\ f.tag.json[1] # "" THEN f.tag.json[1]
    ELSE IF f.tag.yaml # << >> THEN f.tag.yaml[1]
    ELSE ""

\* the name segment of the tag and the options after it
NameSegment(f) == IF TagText(f) = "" THEN "" ELSE Split(TagText(f), ",")[1]
Options(f) ==
    IF TagText(f) = "" THEN {}
    ELSE {Split(TagText(f), ",")[i] : i \in 2..Len(Split(TagText(f), ","))}

EntryName(f) == IF NameSegment(f) # "" THEN NameSegment(f) ELSE f.name

RECURSIVE EntryFields(_), entryFieldsFrom(_, _)
\* the fields that get an entry in the body of t: the exported fields that
\* are not left out, an embedded struct standing for its own such fields
EntryFields(t) == entryFieldsFrom(Emittable(t), 1)
entryFieldsFrom(fs, i) ==
    IF i > Len(fs) THEN << >>
    ELSE (IF fs[i].anonymous THEN EntryFields(fs[i].type) ELSE << fs[i] >>)
         \o entryFieldsFrom(fs, i + 1)

\* the non-optional rendering of t
Rendering(t) == typeOf(G, t, FALSE, {}).text

\* a pointer, slice or map type without its null wrapper, and with it
Bare(t) ==
    CASE Kind(t) = "Pointer" -> Rendering(Elem(t))
      [] Kind(t) = "Slice" -> Rendering(Elem(t)) \o "[]"
      [] Kind(t) = "Map" ->
            "{ [key in (" \o Rendering(Key(t)) \o ")]: (" \o Rendering(Elem(t)) \o ") }"
Nullable(t) == "(" \o Bare(t) \o " | null)"

\* a field the duality of pointers, slices and maps speaks about
Dual(f) ==
    /\ Kind(f.type) \in {"Pointer", "Slice", "Map"}
    /\ ~Overridden(f.type)
    /\ "string" \notin Options(f)

\* the texts a field's type may be written as: its rendering, optional or
\* not, or the forced string
TypeTexts(f) ==
    {typeOf(G, f.type, FALSE, {}).text, typeOf(G, f.type, TRUE, {}).text, "string"}

\* what may stand between the name and the type of f, and the types f may be
\* written with, for each reading of a body
SepsOf(reading, f) ==
    CASE reading = "plain" -> {": "}
      [] reading = "dual" /\ Dual(f) ->
            IF "omitempty" \in Options(f) THEN {"?: "} ELSE {": "}
      [] reading = "emitted" ->
            IF "omitempty" \in Options(f) THEN {": ", "?: "} ELSE {": "}
      [] OTHER -> {": ", "?: "}
TypesOf(reading, f) ==
    CASE reading = "string" /\ "string" \in Options(f) -> {"string"}
      [] reading = "dual" /\ Dual(f) ->
            IF "omitempty" \in Options(f) THEN {Bare(f.type)} ELSE {Nullable(f.type)}
      [] OTHER -> TypeTexts(f)

RECURSIVE Written(_, _, _, _)
\* text is one entry for each of the fields fs from the i-th on, in order:
\* the quoted name, the separator, the type and "; "
Written(text, fs, i, reading) ==
    IF i > Len(fs) THEN text = ""
    ELSE \E sep \in SepsOf(reading, fs[i]), ty \in TypesOf(reading, fs[i]) :
            /\ HasPrefix(text, Quote(EntryName(fs[i])) \o sep \o ty \o "; ")
            /\ Written(SubSeq(text, Len(Quote(EntryName(fs[i])) \o sep \o ty \o "; ") + 1,
                              Len(text)),
                       fs, i + 1, reading)

\* text is a body with the entries of fs
IsBodyOf(text, fs, reading) ==
    /\ HasPrefix(text, "{ ") /\ HasSuffix(text, "}") /\ Len(text) >= 3
    /\ Written(SubSeq(text, 3, Len(text) - 1), fs, 1, reading)

\* the last call returned the body of a struct
ReturnedBody ==
    /\ last.op = "TypeOf" /\ last.abort = "none"
    /\ last.typ \in StructIds /\ ~Overridden(last.typ)
    /\ last.text # symbolOf(G, last.typ)

\* every body the last call returned has the entries of the fields picked by
\* fields, under the reading
Bodies(entire, reading) ==
    /\ ReturnedBody =>
            IsBodyOf(last.text,
                     IF entire THEN EntryFields(last.typ) ELSE Emittable(last.typ), reading)
    /\ (last.op = "Declarations" /\ last.abort = "none") =>
            \A i \in 1..Len(last.decls) :
                ~last.decls[i].IsFunction =>
                    IsBodyOf(last.decls[i].Type,
                             IF entire THEN EntryFields(names[last.decls[i].Name])
                             ELSE Emittable(names[last.decls[i].Name]), reading)

\* C8: a struct body has exactly one entry for each exported field that is
\* not tagged "-", in declaration order, written "name": Type followed by
\* "; ", the name being the tag's name segment or else the field's name;
\* unexported and omitted fields leave nothing.
C8_OneEntryPerField == Bodies(FALSE, "plain")

\* C8, amended: a struct body has exactly one entry for each exported field
\* that is not tagged "-", in declaration order, where an embedded struct
\* stands for its own such fields instead of getting an entry; an entry is
\* written "name": Type followed by "; ", and only a field whose tag carries
\* omitempty may be written "name"?: Type instead; unexported and omitted
\* fields leave nothing.
C8_OneEntryPerEmittedField == Bodies(TRUE, "emitted")

\* C8 witness: the body of a struct with an embedded struct, an omitted field
\* in it and an omitempty field was returned.
C8_Witness ==
    /\ last.op = "TypeOf" /\ last.typ = "Derived"
    /\ last.text = "{ \"Z\": string; \"I\": number; \"j\"?: number; }"

\* C9: in a struct body, a field whose tag carries the string option is
\* written with the type string, whatever its Go type.
C9_StringOptionForcesString == Bodies(TRUE, "string")

\* C10: in a struct body, a pointer field without omitempty is written
\* "name": (T | null) and with omitempty "name"?: T; likewise a slice field
\* (E[] | null) and E[], and a map field its index signature with and
\* without | null.
C10_OptionalDropsNull == Bodies(TRUE, "dual")

(***************************************************************************)
(* Overrides and warnings.                                                 *)
(***************************************************************************)
\* the structural rendering of t: the name or the body of a struct, the
\* nullable rendering of a pointer
Structural(text, t) ==
    CASE Kind(t) = "Struct" ->
            text = symbolOf(G, t) \/ IsBodyOf(text, EntryFields(t), "entry")
      [] Kind(t) = "Pointer" -> text = Nullable(t)
      [] OTHER -> FALSE

\* C11: TypeOf of a type with MarshalJSON and TypeScriptType returns what
\* TypeScriptType returns and does not warn; TypeOf of a type with
\* MarshalJSON, no TypeScriptType and no Typer warns exactly once and renders
\* the type structurally; with WithNoWarnings no call warns.
C11_OverridePrecedence ==
    /\ (last.op = "TypeOf" /\ last.typ \in Marshalers \cap TypeScriptTypers) =>
            /\ last.abort = "none"
            /\ last.text = TypeScriptType(last.typ, FALSE)
            /\ last.warns = 0
    /\ (last.op = "TypeOf" /\ last.typ \in Marshalers /\ ~Overridden(last.typ) /\ warnings) =>
            /\ last.abort = "none"
            /\ last.warns = 1
            /\ Structural(last.text, last.typ)
    /\ ~warnings => last.warns = 0

\* C11 witness: with warnings on, TypeOf of a registered struct that has
\* MarshalJSON only warned once and returned the struct's name.
C11_Witness ==
    /\ warnings /\ ~flatten
    /\ calls = << AddCall("Marshaled") >>
    /\ last.op = "TypeOf" /\ last.typ = "Marshaled"
    /\ last.warns = 1 /\ last.text = "Marshaled"

\* the declarations last returned hold a structural declaration for t
Declares(t) ==
    \E i \in 1..Len(last.decls) :
        /\ ~last.decls[i].IsFunction
        /\ t \in DOMAIN symbols
        /\ last.decls[i].Name = symbols[t]

\* C12: a type with an override (a registered Typer or a TypeScriptTyper
\* implementation) never appears in Declarations(), also when it is a named
\* struct with emittable fields that was registered and named.
C12_OverriddenNeverDeclared ==
    last.op = "Declarations" =>
        \A t \in TypeIds : Overridden(t) => ~Declares(t)

\* Wrap, MyCustomStruct and Rec are named, Rec has a typer, and Declarations()
\* returned the declaration of Wrap alone
C12_Witness ==
    /\ ~flatten
    /\ "Rec" \in DOMAIN typers
    /\ {"Wrap", "MyCustomStruct", "Rec"} \subseteq DOMAIN symbols
    /\ last.op = "Declarations" /\ last.abort = "none"
    /\ Len(last.decls) = 1
    /\ last.decls[1].Name = "Wrap"
    /\ last.decls[1].Type = "{ \"M\": string; \"R\": Record<string, string>; }"

RECURSIVE ZeroEmittable(_)
\* a struct none of whose fields is emitted: each exported, non-omitted field
\* is an embedded struct of which the same holds
ZeroEmittable(t) ==
    /\ Kind(t) = "Struct"
    /\ \A i \in 1..Len(Emittable(t)) :
           /\ Emittable(t)[i].anonymous
           /\ ZeroEmittable(Emittable(t)[i].type)

\* C13: a named struct with zero emittable fields (those of embedded structs
\* counted) has no entry in symbols, no name in names, and Declarations()
\* returns no declaration with an empty body.
C13_EmptyNeverNamed ==
    /\ \A t \in NamedStructs : ZeroEmittable(t) =>
           /\ t \notin DOMAIN symbols
           /\ \A n \in DOMAIN names : names[n] # t
    /\ \A i \in 1..Len(last.decls) :
           /\ last.decls[i].Type # "{ }"
           /\ ~ZeroEmittable(names[last.decls[i].Name])

\* HasEmpty was registered: Empty, Shell and time.Time were visited, only
\* HasEmpty got a name, and Declarations() returned its declaration alone
C13_Witness ==
    /\ ~flatten
    /\ {"Empty", "Shell", "time.Time"} \subseteq types
    /\ DOMAIN symbols = {"HasEmpty"}
    /\ DOMAIN names = {"HasEmpty"}
    /\ last.op = "Declarations"
    /\ Len(last.decls) = 1
    /\ last.decls[1].Type = "{ \"E\": { }; \"F\": { }; \"T\": string; }"

\* C14: in every state reached by Add and AddFunc, the sequence returned by
\* Declarations() is in ascending lexicographic order of Declaration.Name.
C14_DeclarationsAscending ==
    last.op = "Declarations" =>
        \A i, j \in 1..Len(last.decls) :
            i < j => ~StrLess(last.decls[j].Name, last.decls[i].Name)

\* C15: when the namer returns a name that is bound in names, Add panics
\* instead of binding: the name stays bound to the type it was bound to and
\* the type being named gets no entry in symbols.
C15_TakenNameRefused ==
    /\ \A r \in refused :
           /\ r.typ \notin DOMAIN symbols
           /\ names[r.name] = r.bound
           /\ r.bound # r.typ
    /\ \A t \in DOMAIN symbols : names[symbols[t]] = t
    /\ (last.op = "Add" /\ last.abort = "panic") =>
           \E r \in refused : r.typ \in Reach(last.typ) \cup {last.typ}

\* the namer returned "Name" for S#1 and again for S#2: the second Add
\* panicked, "Name" is still bound to S#1 and S#2 has no symbol
C15_Witness ==
    /\ namer = "constant"
    /\ calls = << AddCall("S#1"), AddCall("S#2") >>
    /\ last.op = "Add" /\ last.abort = "panic"
    /\ refused = {[typ |-> "S#2", name |-> "Name", bound |-> "S#1"]}
    /\ symbols = ("S#1" :> "Name")
    /\ names = ("Name" :> "S#1")

\* C16: TypeOf(T) and Declarations() are read-only: for every T, registered
\* or not, they leave visited, circular, symbols, names and the typers (and
\* async and implementations) unchanged.
C16_ReadsChangeNothing ==
    [][last'.op \in {"TypeOf", "Declarations"} =>
            UNCHANGED << types, circular, symbols, names, typers, async, implementations >>]_vars

\* TypeOf rendered the unregistered S#1 inline while c alone was registered
C16_Witness ==
    /\ calls = << AddCall("c") >>
    /\ last.op = "TypeOf" /\ last.typ = "S#1"
    /\ last.text = "{ \"A\": number; \"B\": (number | null); }"
    /\ "S#1" \notin types
    /\ DOMAIN symbols = {"c"}
    /\ DOMAIN names = {"c"}

\* the kinds typeOf has no case for, and the leaf kinds it has one for
UnsupportedKinds == {"Chan", "Func", "Complex64", "Complex128", "UnsafePointer"}
LeafKinds == {"Bool", "String", "Interface"} \cup NumberKinds

\* TypeOf returned, and it was asked for a type of one of kinds that has no override
AskedFor(kinds) ==
    /\ last.op = "TypeOf"
    /\ last.typ \in TypeIds
    /\ Kind(last.typ) \in kinds
    /\ ~Overridden(last.typ)

\* TypeOf returned a non-empty expression without raising
NonEmpty == last.abort = "none" /\ last.text # ""

\* C17 as stated: TypeOf returns "" for every type of an unsupported kind
\* without an override, without raising and without a warning; every
\* supported leaf kind returns a non-empty expression.
C17_UnsupportedIsSilentlyEmpty ==
    /\ AskedFor(UnsupportedKinds) =>
           last.abort = "none" /\ last.text = "" /\ last.warns = 0
    /\ AskedFor(LeafKinds) => NonEmpty

\* C17, amended: as above, but a type that implements json.Marshaler is
\* warned about (once, when warnings are on) before "" is returned.
C17_UnsupportedIsEmpty ==
    /\ AskedFor(UnsupportedKinds) =>
           /\ last.abort = "none" /\ last.text = ""
           /\ last.warns = IF warnings /\ last.typ \in Marshalers THEN 1 ELSE 0
    /\ AskedFor(LeafKinds) => NonEmpty

\* TypeOf returned "" for the channel type Ch, which implements
\* json.Marshaler, and warned about it
C17_Witness ==
    /\ warnings
    /\ last.op = "TypeOf" /\ last.typ = "Ch"
    /\ last.abort = "none" /\ last.text = "" /\ last.warns = 1

RECURSIVE Contains(_, _)
\* part occurs in text
Contains(text, part) ==
    IF Len(text) < Len(part) THEN FALSE
    ELSE SubSeq(text, 1, Len(part)) = part \/ Contains(Tail(text), part)

\* the named structs with an exported, non-omitted embedded field whose type
\* is not a struct
EmbedsNonStruct ==
    {t \in NamedStructs :
        \E i \in 1..Len(Emittable(t)) :
            Emittable(t)[i].anonymous /\ Kind(Emittable(t)[i].type) # "Struct"}

\* body has an entry for every exported, non-omitted field of t that is not
\* embedded
HasOwnFields(body, t) ==
    \A i \in 1..Len(Emittable(t)) :
        Emittable(t)[i].anonymous \/ Contains(body, Quote(EntryName(Emittable(t)[i])) \o ": ")

\* C18: for a named struct that embeds a type that is not a struct, Add,
\* TypeOf and Declarations complete without aborting, and the struct's
\* declaration body contains its other exported fields.
C18_EmbeddedNonStruct ==
    /\ (last.op \in {"Add", "TypeOf"} /\ last.typ \in EmbedsNonStruct) => last.abort = "none"
    /\ last.op = "Declarations" =>
           \A t \in EmbedsNonStruct \cap DOMAIN symbols :
               /\ last.abort = "none"
               /\ ~flatten =>
                      \E i \in 1..Len(last.decls) :
                          /\ last.decls[i].Name = symbols[t]
                          /\ HasOwnFields(last.decls[i].Type, t)

\* C19: after Add(T) returns, every type reachable from T through element,
\* key and pointee types and exported, non-omitted fields is visited, and
\* every reachable named struct with an emittable field has a name in
\* symbols, also behind a field that follows one which signalled a cycle.
C19_TraversalComplete ==
    (last.op = "Add" /\ last.abort = "none") =>
        \A t \in Reach(last.typ) \cup {last.typ} :
            /\ t \in types
            /\ (t \in NamedStructs /\ ~ZeroEmittable(t)) => t \in DOMAIN symbols

RECURSIVE Back(_, _)
\* the walk of x with parent t comes upon t without entering another struct
Back(x, t) ==
    \/ x = t
    \/ Kind(x) \in {"Pointer", "Slice", "Array"} /\ Back(Elem(x), t)
    \/ Kind(x) = "Map" /\ (Back(Key(x), t) \/ Back(Elem(x), t))

\* the map types among the types of the emitted fields of t
MapFields(t) == {m \in FieldTypes(t) : Kind(m) = "Map"}

\* C20: for a map type add traverses the key type and the value type,
\* whatever the key traversal returned, and returns true if either of them
\* signalled the cycle.
C20_MapWalksKeyAndValue ==
    \A t \in NamedStructs : calls = << AddCall(t) >> =>
        \A m \in MapFields(t) :
            /\ m \in types
            /\ Key(m) \in types /\ Elem(m) \in types
            /\ Back(m, t) => t \in circular

\* C21: in every state reached by Add calls, every member of circular is a
\* struct type from which the same type can be reached again through field,
\* element, key or pointee types; a struct none of whose fields leads back
\* to it is never marked circular.
C21_CircularIsSound ==
    \A t \in circular : Kind(t) = "Struct" /\ OnCycle(t)

\* the unnamed struct types among the field types of s through which alone
\* s refers back to itself
UnnamedWayBack(s) ==
    {u \in FieldTypes(s) :
        /\ Kind(u) = "Struct" /\ Name(u) = ""
        /\ \E ft \in FieldTypes(u) : Back(ft, s)
        /\ \A ft \in FieldTypes(s) : ~Back(ft, s)}

\* C22: when a named struct S refers back to itself only through a field of
\* an unnamed struct type, then after Add(S) S is marked circular and the
\* unnamed struct type is not.
C22_CycleAttributedToNamed ==
    \A s \in NamedStructs : calls = << AddCall(s) >> =>
        \A u \in UnnamedWayBack(s) : s \in circular /\ u \notin circular

\* name as Declarations emits it for a function
Lowered(name) == IF name = "" THEN "" ELSE ToLower(Head(name)) \o Tail(name)

\* the names functions are registered under
FuncBindings == {n \in DOMAIN names : Kind(names[n]) = "Func"}

\* the body text written for the implementation registered under n
BodyOf(n) == "{\n" \o implementations[n] \o "\n}"

\* C23: the declaration emitted for a function registered with AddFunc
\* reflects what was registered under its name: with async its return type
\* is wrapped in Promise<...> and DeclarationsTypeScript prefixes it with
\* "async ", without async neither appears, and a non-empty implementation
\* is emitted as the function body.
C23_FuncDeclAsRegistered ==
    /\ last.op = "Declarations" =>
           \A n \in FuncBindings : \A i \in 1..Len(last.decls) :
               (last.decls[i].IsFunction /\ last.decls[i].Name = Lowered(n)) =>
                   /\ async[n] <=> Contains(last.decls[i].Type, "Promise<")
                   /\ implementations[n] # "" => HasSuffix(last.decls[i].Type, BodyOf(n))
    /\ (last.op = "DeclarationsTypeScript" /\ last.abort = "none" /\ ~flatten) =>
           \A n \in FuncBindings :
               async[n] <=> Contains(last.text, "async function " \o Lowered(n) \o "(")

\* only Add was called so far
OnlyAdd == \A i \in 1..Len(calls) : calls[i].op = "Add"

\* C24: a plain function type registered with Add, or reached through a
\* struct field, creates no name binding and no declaration and makes add
\* report false (it marks no struct circular); a later Declarations()
\* returns without aborting.
C24_PlainFuncLeavesNoTrace ==
    OnlyAdd =>
        /\ FuncBindings = {}
        /\ \A i \in 1..Len(last.decls) : ~last.decls[i].IsFunction
        /\ \A t \in circular : \E ft \in FieldTypes(t) : Kind(ft) # "Func"
        /\ last.op = "Declarations" => last.abort = "none"

\* the struct types a rendering shows as a bare name: TypeOf returns their
\* name, and so does every body in which they occur
BareNamed ==
    {t \in StructIds \cap DOMAIN symbols : typeOf(G, t, FALSE, {}) = Out(symbols[t])}

\* ds holds exactly one declaration named like t, and it declares t
DeclaredOnce(ds, t) ==
    /\ ds.abort = "none"
    /\ Cardinality({i \in 1..Len(ds.decls) : ds.decls[i].Name = symbols[t]}) = 1
    /\ \A i \in 1..Len(ds.decls) : ds.decls[i].Name = symbols[t] =>
           /\ ~ds.decls[i].IsFunction
           /\ names[symbols[t]] = t
           /\ IsBodyOf(ds.decls[i].Type, EntryFields(t), "entry")

\* C25: in every state reached by Add calls on types that are not functions,
\* whenever a struct type is rendered as a bare name, Declarations() holds
\* exactly one declaration with that name, and it is the declaration of
\* that type.
C25_NoDanglingNames ==
    (\A i \in 1..Len(calls) : calls[i].op = "Add" /\ Kind(calls[i].typ) # "Func") =>
        \A t \in BareNamed : DeclaredOnce(Declarations(G), t)

====
